---- MODULE Spec2Model ----
(***************************************************************************)
(* Orbit: the credential pool, the resilient generate call (the two        *)
(* dispatchers generate_content_safe of orbit.py and ask_orbit of          *)
(* dashboard.py), the remote config store of the dashboard, the model      *)
(* selection get_valid_model and the roll of send_chaos in orbit.py.       *)
(***************************************************************************)
EXTENDS Integers, Sequences, FiniteSets, TLC

(* ------------------------------ bounds --------------------------------- *)

\* Largest credential pool explored (len(GEMINI_API_KEYS) ranges over 1..MaxKeys).
MaxKeys == 4

\* How many of the four difficulty levels the sidebar selectbox is moved between.
MaxDiff == 2

\* UI events (script reruns with a widget action) explored per dashboard session.
MaxEvents == 2

\* UI events explored per session when two sessions share the remote document.
MaxWrites == 2

\* Longest list of models genai.list_models() returns.
MaxModels == 3

\* Longest list of questions in a quiz answer of the model.
MaxQuestions == 2

(* ------------------------- program constants --------------------------- *)

\* MAX_HISTORY = 100, the sliding window limit (dashboard.py:15).
MAX_HISTORY == 100

\* max_retries = 3 (orbit.py:130, dashboard.py:87).
max_retries == 3

(* --------------------- outcomes of one model call ---------------------- *)

\* A model call either succeeds or raises; the handlers only look at which
\* markers occur in str(e), so an error message is the set of its markers.
Success == {"ok"}

ErrMsgs ==
    { {"403"}, {"403", "leaked"}, {"leaked"}, {"429"}, {"404"},
      {"500"}, {"503"}, {} }

Outcomes == {Success} \cup ErrMsgs

\* `marker in err_msg` (dashboard.py lower-cases the message for "leaked";
\* the marker set already holds the lower-cased markers).
Has(marker, err_msg) == marker \in err_msg

(* ------------------------------- state --------------------------------- *)

VARIABLES
    impl,        \* which script runs: "orbit" (orbit.py) or "dashboard" (dashboard.py)
    nkeys,       \* len(GEMINI_API_KEYS)
    key_index,   \* CURRENT_KEY_INDEX / st.session_state.key_index
    scans,       \* get_valid_model() runs made by the current (or last) operation
    rot_ret,     \* return value of the most recent rotate_key(): "none", "True", "False"
    rot_hist,    \* key_index before each of the last (at most nkeys) rotate_key() calls
    gen_pc,      \* the generate call: "idle" (none since the start or since a
                 \* rotate_key() of its own), "running", "done"
    attempt,     \* the loop variable of `for attempt in range(max_retries)`
    trace,       \* the model calls of this generate call, each with what its
                 \* handler did: [key, out, rot, rescan]
    result,      \* what the generate call returned: "pending", "text", "None"
    returned,    \* history: <<how the call ended, what it returned>> of the
                 \* generate calls that ended without a text so far
    \* --- the config store and the dashboard sessions (dashboard.py) ---
    sessions,    \* the browser sessions that run the dashboard script
    remote,      \* config.json in the GitHub repository (its decoded content)
    local,       \* the local config.json: <<>> (no file) or <<doc>>
    loaded,      \* per session: "unset" ('config' not in st.session_state),
                 \* "None" (load_config returned None), "ok"
    cfg,         \* per session: st.session_state.config, <<>> or <<doc>>
    msgs,        \* per session: st.session_state.messages
    alias,       \* per session: messages and config['chat_history'] are one list object
    spc,         \* per session: "idle", or "update" (inside save_config, between
                 \* repo.get_contents and repo.update_file)
    held,        \* per session: contents.sha as read by save_config, <<>> or <<sha>>
    ret,         \* per session: what the last save_config returned: "none", "True", "False"
    saved,       \* per session: the document last handed to save_config, <<>> or <<doc>>
    seen,        \* per session: the remote content when the session last loaded
                 \* or committed, <<>> or <<doc>>
    events,      \* per session: UI events handled so far
    path,        \* per session: the way the last save_config() took: "none",
                 \* "no session", "get_contents raises", "get_contents",
                 \* "update_file raises", "sha rejected", "committed"
    load_log,    \* per session: the last load_config() call, <<>> or
                 \* <<[remote_ok, local_read, rem, loc, raised, value]>>
    \* --- model selection (get_valid_model of either script) ---
    listing,     \* what genai.list_models() does when the model is selected:
                 \* [raises, models]
    model,       \* the name the cached GenerativeModel was built from
    sel_pc,      \* "import" (before `model = get_valid_model()`), "selected"
    \* --- one run of send_chaos (orbit.py) ---
    argv,        \* the flags on the command line, a subset of {"--quiz", "--fact"}
    ch_pc,       \* "off" (no run), "start", "fact" / "quiz" (in the branch, at
                 \* its generate call), "done", "raised" (ended by an exception)
    ch_config,   \* send_chaos's config: what load_config() returned, <<>> or <<doc>>
    roll,        \* the roll, 0 before it is made
    branch,      \* the branch taken: "none", "abort", "silence", "fact", "quiz", "god"
    answer,      \* the quiz branch: <<response.text>> of its generate call, else <<>>
    outbox,      \* what the bot sent to the chat, in order
    printed      \* what the run printed about failures, in order

gen_vars == <<impl, nkeys, key_index, scans, rot_ret, rot_hist, gen_pc, attempt,
              trace, result, returned>>

store_vars == <<sessions, remote, local, loaded, cfg, msgs, alias, spc, held,
                ret, saved, seen, events, path, load_log>>

sel_vars == <<listing, model, sel_pc>>

chaos_vars == <<argv, ch_pc, ch_config, roll, branch, answer, outbox, printed>>

aux_vars == <<sel_vars, chaos_vars>>

vars == <<gen_vars, store_vars, aux_vars>>

(* ------------------------------ KeyPool -------------------------------- *)

\* rotate_key() without the wraparound.
rotate_key_nowrap(idx, n) ==
    IF n > 1
    THEN [index |-> idx + 1, ret |-> TRUE, rescan |-> 1]
    ELSE [index |-> idx, ret |-> FALSE, rescan |-> 0]

\* rotate_key() that stays on the last credential instead of wrapping.
rotate_key_clamp(idx, n) ==
    IF n > 1
    THEN [index |-> IF idx + 1 < n THEN idx + 1 ELSE idx, ret |-> TRUE,
          rescan |-> 1]
    ELSE [index |-> idx, ret |-> FALSE, rescan |-> 0]

\* rotate_key() with the guard len(GEMINI_API_KEYS) >= 1.
rotate_key_always(idx, n) ==
    [index |-> (idx + 1) % n, ret |-> TRUE, rescan |-> 1]

\* rotate_key(): the new index, the return value, and whether the cached model
\* was re-selected (model = get_valid_model()).
rotate_key(idx, n) ==
    IF n > 1
    THEN [index |-> (idx + 1) % n, ret |-> TRUE, rescan |-> 1]
    ELSE [index |-> idx, ret |-> FALSE, rescan |-> 0]

\* The history of rotations, cut to the last n.
Remember(hist, idx, n) ==
    LET h == Append(hist, idx)
    IN  IF Len(h) > n THEN Tail(h) ELSE h

BoolStr(b) == IF b THEN "True" ELSE "False"

\* A call of rotate_key() outside a generate call.
RotateKey ==
    /\ gen_pc # "running"
    /\ LET r == rotate_key(key_index, nkeys)
       IN  /\ key_index' = r.index
           /\ scans' = r.rescan
           /\ rot_ret' = BoolStr(r.ret)
           /\ rot_hist' = Remember(rot_hist, key_index, nkeys)
    /\ gen_pc' = "idle"
    /\ UNCHANGED <<impl, nkeys, attempt, trace, result, returned>>
    /\ UNCHANGED <<store_vars, aux_vars>>

(* ----------------------------- Dispatcher ------------------------------ *)

\* generate_content_safe's except-branch without the "429" marker.
generate_content_safe_except_no429(err_msg, idx, n) ==
    IF Has("404", err_msg)
    THEN [index |-> idx, rescan |-> 1, rot |-> "none", next |-> "continue"]
    ELSE IF Has("403", err_msg)
    THEN LET r == rotate_key(idx, n)
         IN  [index |-> r.index, rescan |-> r.rescan, rot |-> BoolStr(r.ret),
              next |-> "continue"]
    ELSE [index |-> idx, rescan |-> 0, rot |-> "none", next |-> "return"]

\* The except-branch of generate_content_safe (orbit.py): what one failed
\* model call does. next is "continue" (go on with the loop) or "return"
\* (return None at once).
generate_content_safe_except(err_msg, idx, n) ==
    IF Has("404", err_msg)
    THEN [index |-> idx, rescan |-> 1, rot |-> "none", next |-> "continue"]
    ELSE IF Has("429", err_msg) \/ Has("403", err_msg)
    THEN LET r == rotate_key(idx, n)
         IN  \* rotated: sleep 2, continue; not rotated: sleep 10, and the
             \* loop goes on to its next iteration all the same
             [index |-> r.index, rescan |-> r.rescan, rot |-> BoolStr(r.ret),
              next |-> "continue"]
    ELSE [index |-> idx, rescan |-> 0, rot |-> "none", next |-> "return"]

\* ask_orbit's except-branch going on with the loop after an unrecognised error.
ask_orbit_except_goes_on(err_msg, idx, n) ==
    IF Has("leaked", err_msg) \/ Has("403", err_msg) \/ Has("429", err_msg)
    THEN LET r == rotate_key(idx, n)
         IN  [index |-> r.index, rescan |-> r.rescan, rot |-> BoolStr(r.ret),
              next |-> IF r.ret THEN "continue" ELSE "return"]
    ELSE [index |-> idx, rescan |-> 0, rot |-> "none", next |-> "continue"]

\* The except-branch of ask_orbit (dashboard.py).
ask_orbit_except(err_msg, idx, n) ==
    IF Has("leaked", err_msg) \/ Has("403", err_msg) \/ Has("429", err_msg)
    THEN LET r == rotate_key(idx, n)
         IN  [index |-> r.index, rescan |-> r.rescan, rot |-> BoolStr(r.ret),
              next |-> IF r.ret THEN "continue" ELSE "return"]
    ELSE [index |-> idx, rescan |-> 0, rot |-> "none", next |-> "return"]

\* A retry that does not count against max_retries.
next_attempt_stuck(a) == a

\* The next value of the loop variable.
next_attempt(a) == a + 1

\* The entry into generate_content_safe / ask_orbit.
StartCall ==
    /\ gen_pc' = "running"
    /\ attempt' = 0
    /\ trace' = <<>>
    /\ result' = "pending"
    /\ scans' = 0
    /\ UNCHANGED <<impl, nkeys, key_index, rot_ret, rot_hist, returned>>

\* A caller starts a generate call (send_chaos, the chat tab, the quiz tab).
GenStart ==
    /\ gen_pc # "running"
    /\ StartCall
    /\ UNCHANGED <<store_vars, aux_vars>>

\* How a call with the model calls t that returned no text ended: on an error
\* message with none of the markers ("fatal"), after nothing but messages
\* with "403", "leaked" or "429" ("exhausted"), or otherwise ("other").
ended(t) ==
    IF t[Len(t)].out = {} THEN "fatal"
    ELSE IF \A i \in 1..Len(t) :
                \E m \in {"403", "leaked", "429"} : Has(m, t[i].out)
         THEN "exhausted"
         ELSE "other"

\* One iteration of the retry loop: the model call with outcome out, then the
\* handler h of the running script.
Iteration(out, h) ==
    /\ trace' = Append(trace,
                [key |-> key_index, out |-> out,
                 rot |-> IF out = Success THEN "none" ELSE h.rot,
                 rescan |-> IF out = Success THEN 0 ELSE h.rescan])
    /\ IF out = Success
       THEN /\ result' = "text"
            /\ gen_pc' = "done"
            /\ UNCHANGED <<key_index, scans, rot_ret, rot_hist, attempt, returned>>
       ELSE /\ key_index' = h.index
            /\ scans' = scans + h.rescan
            /\ rot_ret' = IF h.rot = "none" THEN rot_ret ELSE h.rot
            /\ rot_hist' = IF h.rot = "none" THEN rot_hist
                           ELSE Remember(rot_hist, key_index, nkeys)
            /\ attempt' = next_attempt(attempt)
            /\ IF h.next = "continue" /\ attempt' < max_retries
               THEN /\ gen_pc' = "running"
                    /\ result' = result
                    /\ UNCHANGED returned
               ELSE \* return None: from the handler, or after the loop
                    /\ gen_pc' = "done"
                    /\ result' = "None"
                    /\ returned' = returned \cup {<< ended(trace'), result' >>}
    /\ UNCHANGED <<impl, nkeys>>
    /\ UNCHANGED <<store_vars, aux_vars>>

\* A whole generate call of script ("orbit": generate_content_safe,
\* "dashboard": ask_orbit) from attempt a on, with the key index idx, n keys
\* and the model calls ending as outs tells, one entry per call: the number
\* of model calls, the final key index, the get_valid_model() runs and the
\* result. A call beyond the end of outs is counted, its result "pending".
RECURSIVE run(_, _, _, _, _)
run(script, outs, idx, n, a) ==
    IF a >= max_retries
    THEN [calls |-> 0, index |-> idx, rescans |-> 0, result |-> "None"]
    ELSE IF outs = <<>>
    THEN [calls |-> 1, index |-> idx, rescans |-> 0, result |-> "pending"]
    ELSE IF Head(outs) = Success
    THEN [calls |-> 1, index |-> idx, rescans |-> 0, result |-> "text"]
    ELSE LET h == IF script = "orbit"
                  THEN generate_content_safe_except(Head(outs), idx, n)
                  ELSE ask_orbit_except(Head(outs), idx, n)
             r == run(script, Tail(outs), h.index, n, next_attempt(a))
         IN  IF h.next = "continue"
             THEN [calls |-> 1 + r.calls, index |-> r.index,
                   rescans |-> h.rescan + r.rescans, result |-> r.result]
             ELSE [calls |-> 1, index |-> h.index, rescans |-> h.rescan,
                   result |-> "None"]

generate_content_safe ==
    /\ impl = "orbit"
    /\ gen_pc = "running"
    /\ \E out \in Outcomes :
         Iteration(out, generate_content_safe_except(out, key_index, nkeys))

ask_orbit ==
    /\ impl = "dashboard"
    /\ gen_pc = "running"
    /\ \E out \in Outcomes :
         Iteration(out, ask_orbit_except(out, key_index, nkeys))

(* ----------------------------- ConfigStore ----------------------------- *)

AllSessions == {1, 2}

\* The sidebar's difficulty levels (dashboard.py:183).
diffs ==
    << "Easy (Review)", "Medium (Standard)", "Hard (Exam Prep)",
       "Asian Parent Expectations (Extreme)" >>

\* The units the curriculum tab offers (config['unit_inventory'][y], read only).
Inventory == << "Robotics", "Compilers" >>

\* What the multiselect of the curriculum tab can hand to the Add button.
AddInputs == { << "Robotics" >>, << "Compilers" >>, << "Robotics", "Compilers" >> }

\* The text area of the settings tab, as its pieces between commas.
InterestTexts == { << "ai" >>, << "ai", " space" >>, << "" >> }

\* str.strip() on the pieces above.
strip(x) == IF x = " space" THEN "space" ELSE x

\* [x.strip() for x in curr.split(",")] (dashboard.py:342).
parse_interests(text) == [i \in 1..Len(text) |-> strip(text[i])]

\* A chat_history as stored: h entries, user and assistant in turn.
StoredHistory(h) ==
    [i \in 1..h |->
        [role |-> IF i % 2 = 1 THEN "user" ELSE "assistant", content |-> i]]

\* A config.json document. has_history: the key 'chat_history' is present.
StoredDoc(d, has, h) ==
    [difficulty |-> diffs[d], current_units |-> << "Robotics" >>,
     interests |-> << "ai" >>, has_history |-> has,
     chat_history |-> StoredHistory(h)]

\* contents.sha: the git blob hash of the file's content, one per content.
blob_sha(doc) == doc

\* The slice xs[:n], which keeps the oldest entries.
last_keeps_oldest(xs, n) ==
    IF Len(xs) <= n THEN xs ELSE SubSeq(xs, 1, n)

\* The Python slice xs[-n:].
last(xs, n) ==
    IF Len(xs) <= n THEN xs ELSE SubSeq(xs, Len(xs) - n + 1, Len(xs))

\* What open() and json.load() can do with the local config.json: without
\* the file open() raises FileNotFoundError; with it the read succeeds or
\* raises something else (PermissionError, json.JSONDecodeError).
local_reads(loc) == IF loc = <<>> THEN {"missing"} ELSE {"ok", "raises"}

\* load_config() of either script: the remote document when the GitHub
\* session and the fetch succeed (remote_ok); else the local file, None on
\* FileNotFoundError, any other exception of the local read left to the caller.
load_config(remote_ok, rem, local_read, loc) ==
    IF remote_ok THEN [raised |-> FALSE, value |-> << rem >>]
    ELSE IF local_read = "ok" THEN [raised |-> FALSE, value |-> loc]
    ELSE IF local_read = "missing" THEN [raised |-> FALSE, value |-> <<>>]
    ELSE [raised |-> TRUE, value |-> <<>>]

\* The first run of the script in a session: load_config(), then, with a
\* config, st.session_state.messages = config.get('chat_history', []). When
\* load_config() raises the run ends with 'config' still not in
\* st.session_state.
Load(s) ==
    /\ s \in sessions
    /\ loaded[s] = "unset"
    /\ \E remote_ok \in BOOLEAN :
       \E local_read \in (IF remote_ok THEN {"not read"} ELSE local_reads(local)) :
         LET r == load_config(remote_ok, remote, local_read, local)
             got == r.value
         IN  /\ load_log' = [load_log EXCEPT ![s] =
                                << [remote_ok |-> remote_ok,
                                    local_read |-> local_read,
                                    rem |-> remote, loc |-> local,
                                    raised |-> r.raised, value |-> got] >>]
             /\ IF r.raised
                THEN UNCHANGED <<cfg, loaded, msgs, alias, seen>>
                ELSE /\ cfg' = [cfg EXCEPT ![s] = got]
                     /\ loaded' = [loaded EXCEPT ![s] =
                                      IF got = <<>> THEN "None" ELSE "ok"]
                     /\ msgs' = [msgs EXCEPT ![s] =
                                    IF got = <<>> THEN <<>> ELSE got[1].chat_history]
                     /\ alias' = [alias EXCEPT ![s] =
                                     IF got = <<>> THEN FALSE ELSE got[1].has_history]
                     /\ seen' = [seen EXCEPT ![s] = << remote >>]
    /\ UNCHANGED <<sessions, remote, local, spc, held, ret, saved, events, path>>
    /\ UNCHANGED <<gen_vars, aux_vars>>

\* A rerun of the script with a widget action, in a session that has a config.
CanAct(s) ==
    /\ s \in sessions
    /\ loaded[s] = "ok"
    /\ spc[s] = "idle"
    /\ events[s] < (IF Cardinality(sessions) > 1 THEN MaxWrites ELSE MaxEvents)

\* save_config(new_config) up to and including repo.get_contents: without a
\* GitHub session the local file is overwritten and True returned; a failing
\* get_contents returns False; else contents.sha is held for update_file.
save_config(s, new_config) ==
    /\ saved' = [saved EXCEPT ![s] = << new_config >>]
    /\ \E step \in {"no session", "get_contents raises", "get_contents"} :
         /\ path' = [path EXCEPT ![s] = step]
         /\ CASE step = "no session" ->
                   /\ local' = << new_config >>
                   /\ ret' = [ret EXCEPT ![s] = "True"]
                   /\ UNCHANGED <<spc, held>>
              [] step = "get_contents raises" ->
                   /\ ret' = [ret EXCEPT ![s] = "False"]
                   /\ UNCHANGED <<local, spc, held>>
              [] step = "get_contents" ->
                   /\ held' = [held EXCEPT ![s] = << blob_sha(remote) >>]
                   /\ spc' = [spc EXCEPT ![s] = "update"]
                   /\ ret' = [ret EXCEPT ![s] = "none"]
                   /\ UNCHANGED local

\* The rest of save_config: repo.update_file(..., sha=contents.sha), which
\* the store rejects when the file's sha is no longer the one given, and the
\* return to the handler (whose `st.session_state.config = config` assigns
\* the object it already holds).
update_file(s) ==
    /\ s \in sessions
    /\ spc[s] = "update"
    /\ \E request_ok \in BOOLEAN :
         IF request_ok /\ held[s] = << blob_sha(remote) >>
         THEN /\ remote' = cfg[s][1]
              /\ ret' = [ret EXCEPT ![s] = "True"]
              /\ seen' = [seen EXCEPT ![s] = << cfg[s][1] >>]
              /\ path' = [path EXCEPT ![s] = "committed"]
         ELSE /\ ret' = [ret EXCEPT ![s] = "False"]
              /\ path' = [path EXCEPT ![s] =
                             IF request_ok THEN "sha rejected"
                             ELSE "update_file raises"]
              /\ UNCHANGED <<remote, seen>>
    /\ spc' = [spc EXCEPT ![s] = "idle"]
    /\ held' = [held EXCEPT ![s] = <<>>]
    /\ UNCHANGED <<sessions, local, loaded, cfg, msgs, alias, saved, events, load_log>>
    /\ UNCHANGED <<gen_vars, aux_vars>>

\* The sidebar selectbox moved to another level (dashboard.py:186-190).
ChangeDifficulty(s) ==
    /\ CanAct(s)
    /\ \E i \in 1..MaxDiff :
         /\ diffs[i] # cfg[s][1].difficulty
         /\ LET config == [cfg[s][1] EXCEPT !.difficulty = diffs[i]]
            IN  /\ cfg' = [cfg EXCEPT ![s] = << config >>]
                /\ save_config(s, config)
    /\ events' = [events EXCEPT ![s] = @ + 1]
    /\ UNCHANGED <<sessions, remote, loaded, msgs, alias, seen, load_log>>
    /\ UNCHANGED <<gen_vars, aux_vars>>

\* The Update Interests button (dashboard.py:340-345).
UpdateInterests(s) ==
    /\ CanAct(s)
    /\ \E text \in InterestTexts :
         LET config == [cfg[s][1] EXCEPT !.interests = parse_interests(text)]
         IN  /\ cfg' = [cfg EXCEPT ![s] = << config >>]
             /\ save_config(s, config)
    /\ events' = [events EXCEPT ![s] = @ + 1]
    /\ UNCHANGED <<sessions, remote, loaded, msgs, alias, seen, load_log>>
    /\ UNCHANGED <<gen_vars, aux_vars>>

Contains(xs, x) == \E i \in 1..Len(xs) : xs[i] = x

\* for u in adds: if u not in config['current_units']: append (dashboard.py:323-326).
RECURSIVE add_units(_, _)
add_units(units, adds) ==
    IF adds = <<>> THEN units
    ELSE add_units(IF Contains(units, Head(adds)) THEN units
                   ELSE Append(units, Head(adds)),
                   Tail(adds))

\* list.remove(x): without the first occurrence of x.
RECURSIVE remove(_, _)
remove(xs, x) ==
    IF xs = <<>> THEN <<>>
    ELSE IF Head(xs) = x THEN Tail(xs)
    ELSE << Head(xs) >> \o remove(Tail(xs), x)

\* The Add button of the curriculum tab (dashboard.py:321-330).
AddUnits(s) ==
    /\ CanAct(s)
    /\ \E adds \in AddInputs :
         LET units == add_units(cfg[s][1].current_units, adds)
             config == [cfg[s][1] EXCEPT !.current_units = units]
         IN  IF units # cfg[s][1].current_units
             THEN /\ cfg' = [cfg EXCEPT ![s] = << config >>]
                  /\ save_config(s, config)
             ELSE UNCHANGED <<cfg, saved, local, ret, spc, held, path>>
    /\ events' = [events EXCEPT ![s] = @ + 1]
    /\ UNCHANGED <<sessions, remote, loaded, msgs, alias, seen, load_log>>
    /\ UNCHANGED <<gen_vars, aux_vars>>

\* A Drop checkbox of the curriculum tab (dashboard.py:332-337).
DropUnit(s) ==
    /\ CanAct(s)
    /\ \E i \in 1..Len(cfg[s][1].current_units) :
         LET unit == cfg[s][1].current_units[i]
             config == [cfg[s][1] EXCEPT
                           !.current_units = remove(@, unit)]
         IN  /\ cfg' = [cfg EXCEPT ![s] = << config >>]
             /\ save_config(s, config)
    /\ events' = [events EXCEPT ![s] = @ + 1]
    /\ UNCHANGED <<sessions, remote, loaded, msgs, alias, seen, load_log>>
    /\ UNCHANGED <<gen_vars, aux_vars>>

\* A chat input (dashboard.py:210-242). answered: ask_orbit returned a
\* response with text. The user message is appended to messages before the
\* call; while messages and config['chat_history'] are one list, it is
\* appended to the config too. An answered turn appends the reply, rebinds
\* config['chat_history'] to a new list, the last MAX_HISTORY messages, and
\* saves; the result of that save is not looked at.
ChatTurn(s) ==
    /\ CanAct(s)
    /\ LET config == cfg[s][1]
           user == [role |-> "user", content |-> Len(msgs[s]) + 1]
           asked == Append(msgs[s], user)
           config1 == IF alias[s]
                      THEN [config EXCEPT !.chat_history = asked]
                      ELSE config
       IN  \E answered \in BOOLEAN :
             IF answered
             THEN LET reply == [role |-> "assistant",
                                content |-> Len(asked) + 1]
                      replied == Append(asked, reply)
                      config2 == [config1 EXCEPT
                                     !.chat_history = last(replied, MAX_HISTORY),
                                     !.has_history = TRUE]
                  IN  /\ msgs' = [msgs EXCEPT ![s] = replied]
                      /\ alias' = [alias EXCEPT ![s] = FALSE]
                      /\ cfg' = [cfg EXCEPT ![s] = << config2 >>]
                      /\ save_config(s, config2)
             ELSE /\ msgs' = [msgs EXCEPT ![s] = asked]
                  /\ cfg' = [cfg EXCEPT ![s] = << config1 >>]
                  /\ UNCHANGED <<alias, saved, local, ret, spc, held, path>>
    /\ events' = [events EXCEPT ![s] = @ + 1]
    /\ UNCHANGED <<sessions, remote, loaded, seen, load_log>>
    /\ UNCHANGED <<gen_vars, aux_vars>>

(* --------------------------- ModelSelector ----------------------------- *)

\* A model name is the sequence of its pieces; a marker is a sequence of
\* pieces too, so that `marker in name` is a test on the text.
ModelNames ==
    { << "models/", "gemini-", "1.5-", "flash" >>,
      << "models/", "gemini-", "1.5-", "flash", "-", "8b" >>,
      << "models/", "gemini-", "1.5-", "flash", "-", "latest" >>,
      << "models/", "gemini-", "1.5-", "flash", "-", "8b", "-", "exp" >>,
      << "models/", "gemini-", "2", ".0-", "flash" >>,
      << "models/", "gemini-", "1.5-", "pro" >> }

\* m.supported_generation_methods of a listed model.
MethodLists == { << "generateContent", "countTokens" >>, << "embedContent" >> }

ModelInfos == [name : ModelNames, supported_generation_methods : MethodLists]

\* Python's `sub in text` on strings.
in_str(sub, text) ==
    \E k \in 0..(Len(text) - Len(sub)) :
        SubSeq(text, k + 1, k + Len(sub)) = sub

\* Python's text.replace(old, "").
RECURSIVE replace(_, _)
replace(text, old) ==
    IF Len(text) < Len(old) \/ text = <<>> THEN text
    ELSE IF SubSeq(text, 1, Len(old)) = old
    THEN replace(SubSeq(text, Len(old) + 1, Len(text)), old)
    ELSE << Head(text) >> \o replace(Tail(text), old)

\* [m.name for m in models if 'generateContent' in m.supported_generation_methods]
RECURSIVE valid_names(_)
valid_names(models) ==
    IF models = <<>> THEN <<>>
    ELSE (IF Contains(Head(models).supported_generation_methods, "generateContent")
          THEN << Head(models).name >> ELSE <<>>)
         \o valid_names(Tail(models))

\* The test of the first loop.
is_standard_flash(m) ==
    /\ in_str(<< "gemini-", "1.5-", "flash" >>, m)
    /\ ~in_str(<< "latest" >>, m)
    /\ ~in_str(<< "exp" >>, m)

\* The test of the second loop.
is_any_flash(m) ==
    /\ in_str(<< "flash" >>, m)
    /\ ~in_str(<< "gemini-", "2" >>, m)
    /\ ~in_str(<< "exp" >>, m)

\* `for m in valid_models: if test(m): return ...` with the first loop's
\* test (tier 1) or the second's (tier 2): << m >> for the name returned on,
\* <<>> when the loop ends without a return.
RECURSIVE scan(_, _)
scan(valid_models, tier) ==
    IF valid_models = <<>> THEN <<>>
    ELSE IF (IF tier = 1 THEN is_standard_flash(Head(valid_models))
             ELSE is_any_flash(Head(valid_models)))
    THEN << Head(valid_models) >>
    ELSE scan(Tail(valid_models), tier)

\* The name forced when the scan fails.
forced_name == << "gemini-", "1.5-", "flash" >>

\* get_valid_model() with the two loops in the other order.
get_valid_model_any_flash_first(found) ==
    IF found.raises THEN forced_name
    ELSE LET valid_models == valid_names(found.models)
         IN  IF scan(valid_models, 2) # <<>>
             THEN replace(scan(valid_models, 2)[1], << "models/" >>)
             ELSE IF scan(valid_models, 1) # <<>>
             THEN replace(scan(valid_models, 1)[1], << "models/" >>)
             ELSE IF valid_models # <<>>
             THEN replace(valid_models[1], << "models/" >>)
             ELSE forced_name

\* get_valid_model(): the name handed to genai.GenerativeModel, where found
\* is what genai.list_models() did.
get_valid_model(found) ==
    IF found.raises THEN forced_name
    ELSE LET valid_models == valid_names(found.models)
         IN  IF scan(valid_models, 1) # <<>>
             THEN replace(scan(valid_models, 1)[1], << "models/" >>)
             ELSE IF scan(valid_models, 2) # <<>>
             THEN replace(scan(valid_models, 2)[1], << "models/" >>)
             ELSE IF valid_models # <<>>
             THEN replace(valid_models[1], << "models/" >>)
             ELSE forced_name

\* The lists genai.list_models() can hand back, up to MaxModels models.
Listings ==
    [raises : {TRUE}, models : {<<>>}]
    \cup [raises : {FALSE},
          models : UNION { [1..k -> ModelInfos] : k \in 0..MaxModels }]

\* `model = get_valid_model()` at import.
SelectModel ==
    /\ sel_pc = "import"
    /\ model' = get_valid_model(listing)
    /\ sel_pc' = "selected"
    /\ UNCHANGED listing
    /\ UNCHANGED <<gen_vars, store_vars, chaos_vars>>

(* ----------------------------- ChaosRoller ---------------------------- *)

\* The command lines of orbit.py.
Flags == SUBSET {"--quiz", "--fact"}

\* The values roll can take: 90 with --quiz, else 60 with --fact, else
\* random.randint(1, 100).
rolls(args) ==
    IF "--quiz" \in args THEN {90}
    ELSE IF "--fact" \in args THEN {60}
    ELSE 1..100

\* The if/elif chain on roll with its first bound one lower.
band_below_50(r) ==
    IF r < 50 THEN "silence"
    ELSE IF 51 <= r /\ r <= 85 THEN "fact"
    ELSE IF 86 <= r /\ r <= 98 THEN "quiz"
    ELSE "god"

\* The if/elif chain on roll: the branch send_chaos takes.
band(r) ==
    IF r <= 50 THEN "silence"
    ELSE IF 51 <= r /\ r <= 85 THEN "fact"
    ELSE IF 86 <= r /\ r <= 98 THEN "quiz"
    ELSE "god"

\* A message of the bot: a text (send_message) or a quiz poll (send_poll),
\* the poll with its position in the batch and the size of the batch.
Msg(kind, body, pos, of) == [kind |-> kind, body |-> body, pos |-> pos, of |-> of]

\* send_safe_message(bot, chat_id, text): the HTML send; when it raises, the
\* raw send, whose exception is left to the caller. how is what the
\* transport does; the result is the outbox, or <<>> with raised.
send_safe_message(box, text, how) ==
    IF how = "html" THEN [raised |-> FALSE, box |-> Append(box, Msg("html", text, 0, 0))]
    ELSE IF how = "raw" THEN [raised |-> FALSE, box |-> Append(box, Msg("raw", text, 0, 0))]
    ELSE [raised |-> TRUE, box |-> box]

Transport == {"html", "raw", "raises"}

\* A line printed about a failure.
Line(what, pos) == [what |-> what, pos |-> pos]

\* The question objects the model can write: with the four keys the poll
\* loop reads, or with 'explanation' and 'correct_id' missing.
Question(k) ==
    [question |-> k, options |-> << "A", "B", "C", "D" >>, correct_id |-> 0,
     explanation |-> "why"]

HalfQuestion(k) == [question |-> k, options |-> << "A", "B", "C", "D" >>]

QuestionObjects == {Question("q1"), Question("q2"), HalfQuestion("q3")}

\* The JSON values of a quiz answer: a list of objects, one object, a number.
JsonValues ==
    [type : {"list"},
     items : UNION { [1..k -> QuestionObjects] : k \in 0..MaxQuestions }]
    \cup [type : {"dict"}, items : { << q >> : q \in QuestionObjects }]
    \cup [type : {"number"}, items : { <<>> }]

\* response.text as its pieces: a markdown fence (opening, with the word
\* json, or closing), a JSON value, other prose.
Piece(kind, value) == [kind |-> kind, value |-> value]

NoValue == [type |-> "none", items |-> <<>>]

\* The texts of a quiz answer: empty, the bare JSON, the JSON in a fenced
\* block, the JSON after a sentence of prose.
QuizTexts ==
    { <<>> }
    \cup { << Piece("json", v) >> : v \in JsonValues }
    \cup { << Piece("fence json", NoValue), Piece("json", v), Piece("fence", NoValue) >> :
             v \in JsonValues }
    \cup { << Piece("prose", NoValue), Piece("json", v) >> : v \in JsonValues }

\* The two text.replace(fence, '') calls and strip(): the text without its
\* markdown fences.
strip_fences(text) ==
    SelectSeq(text, LAMBDA piece : piece.kind \notin {"fence json", "fence"})

\* json.loads(text): the value of a text that is one JSON value, else an
\* exception.
json_loads(text) ==
    IF Len(text) = 1 /\ text[1].kind = "json"
    THEN [raised |-> FALSE, data |-> text[1].value]
    ELSE [raised |-> TRUE, data |-> NoValue]

\* The subscripts of one send_poll call succeed.
has_keys(q) ==
    {"question", "options", "correct_id", "explanation"} \subseteq DOMAIN q

\* `for i, q in enumerate(data)` from position i on: a poll per question,
\* each in its own try block; a question without the keys, or the poll the
\* transport rejects, prints "Poll i failed" and the loop goes on.
RECURSIVE fire_polls(_, _, _)
fire_polls(data, i, rejected) ==
    IF i > Len(data) THEN [polls |-> <<>>, lines |-> <<>>]
    ELSE LET rest == fire_polls(data, i + 1, rejected)
         IN  IF has_keys(data[i]) /\ i # rejected
             THEN [polls |-> << Msg("poll", data[i].question, i, Len(data)) >>
                             \o rest.polls,
                   lines |-> rest.lines]
             ELSE [polls |-> rest.polls,
                   lines |-> << Line("Poll failed", i) >> \o rest.lines]

\* The quiz branch after generate_content_safe returned a response with the
\* text `text`: what is sent and printed.
quiz_from_text(text, rejected) ==
    LET loaded_ == json_loads(strip_fences(text))
        data == loaded_.data
    IN  IF text = <<>>
        THEN [polls |-> <<>>, lines |-> << Line("No response for Quiz", 0) >>]
        ELSE IF loaded_.raised \/ data.type = "number"
        THEN [polls |-> <<>>, lines |-> << Line("Quiz Parse Error", 0) >>]
        ELSE fire_polls(data.items, 1, rejected)

\* The end of a run of send_chaos, with its variables as given.
ChaosEnds(pc, cfg_, roll_, branch_, box, lines) ==
    /\ ch_pc' = pc
    /\ ch_config' = cfg_
    /\ roll' = roll_
    /\ branch' = branch_
    /\ outbox' = box
    /\ printed' = lines
    /\ UNCHANGED argv

\* send_chaos() up to the generate call of its branch: load_config(), the
\* roll, and the branches that make no generate call. random.choice raises
\* IndexError on an empty list.
send_chaos ==
    /\ ch_pc = "start"
    /\ gen_pc = "idle"
    /\ \E remote_ok \in BOOLEAN :
       \E local_read \in (IF remote_ok THEN {"not read"} ELSE local_reads(local)) :
         LET r == load_config(remote_ok, remote, local_read, local)
         IN  IF r.raised
             THEN /\ ChaosEnds("raised", <<>>, 0, "none", <<>>, <<>>)
                  /\ UNCHANGED gen_vars
             ELSE IF r.value = <<>>
             THEN /\ ChaosEnds("done", <<>>, 0, "abort", <<>>,
                               << Line("Config could not be loaded", 0) >>)
                  /\ UNCHANGED gen_vars
             ELSE \E r_ \in rolls(argv) : \E how \in Transport :
                    LET doc == r.value[1]
                        sent == send_safe_message(<<>>,
                                    IF band(r_) = "quiz" THEN "Incoming Rapid Fire"
                                    ELSE "GOD MODE ACTIVATED", how)
                    IN  CASE band(r_) = "silence" ->
                               /\ ChaosEnds("done", r.value, r_, "silence", <<>>, <<>>)
                               /\ UNCHANGED gen_vars
                          [] band(r_) = "fact" ->
                               IF doc.interests = <<>>
                               THEN /\ ChaosEnds("raised", r.value, r_, "fact", <<>>, <<>>)
                                    /\ UNCHANGED gen_vars
                               ELSE /\ ChaosEnds("fact", r.value, r_, "fact", <<>>, <<>>)
                                    /\ StartCall
                          [] band(r_) = "quiz" ->
                               IF doc.current_units = <<>> \/ sent.raised
                               THEN /\ ChaosEnds("raised", r.value, r_, "quiz", <<>>, <<>>)
                                    /\ UNCHANGED gen_vars
                               ELSE /\ ChaosEnds("quiz", r.value, r_, "quiz", sent.box, <<>>)
                                    /\ StartCall
                          [] band(r_) = "god" ->
                               /\ ChaosEnds(IF sent.raised THEN "raised" ELSE "done",
                                            r.value, r_, "god", sent.box, <<>>)
                               /\ UNCHANGED gen_vars
    /\ UNCHANGED answer
    /\ UNCHANGED <<store_vars, sel_vars>>

\* The fact branch after its generate call: the fact is sent, or "No
\* response for Fact" printed. empty_text: response.text is empty.
send_chaos_fact ==
    /\ ch_pc = "fact"
    /\ gen_pc = "done"
    /\ \E empty_text \in BOOLEAN : \E how \in Transport :
         LET sent == send_safe_message(outbox, "Magic Fact", how)
         IN  IF result = "text" /\ ~empty_text
             THEN ChaosEnds(IF sent.raised THEN "raised" ELSE "done",
                            ch_config, roll, branch, sent.box, printed)
             ELSE ChaosEnds("done", ch_config, roll, branch, outbox,
                            Append(printed, Line("No response for Fact", 0)))
    /\ UNCHANGED answer
    /\ UNCHANGED <<gen_vars, store_vars, sel_vars>>

\* The quiz branch after its generate call: the answer parsed and the polls
\* sent. rejected: the position of the poll the transport rejects, 0 for none.
send_chaos_quiz ==
    /\ ch_pc = "quiz"
    /\ gen_pc = "done"
    /\ IF result = "text"
       THEN \E text \in QuizTexts : \E rejected \in 0..MaxQuestions :
              LET q == quiz_from_text(text, rejected)
              IN  /\ ChaosEnds("done", ch_config, roll, branch,
                               outbox \o q.polls, printed \o q.lines)
                  /\ answer' = << text >>
       ELSE /\ ChaosEnds("done", ch_config, roll, branch, outbox,
                         Append(printed, Line("No response for Quiz", 0)))
            /\ UNCHANGED answer
    /\ UNCHANGED <<gen_vars, store_vars, sel_vars>>

(* ---------------------------- specification ---------------------------- *)

\* The process after import: the pool loaded, index 0, the model selected.
InitGen(scripts, sizes) ==
    /\ impl \in scripts
    /\ nkeys \in sizes
    /\ key_index = 0
    /\ scans = 1            \* model = get_valid_model() at import
    /\ rot_ret = "none"
    /\ rot_hist = <<>>
    /\ gen_pc = "idle"
    /\ attempt = 0
    /\ trace = <<>>
    /\ result = "pending"
    /\ returned = {}

\* The store with the sessions ss not yet started, the remote document one
\* of docs and the local file one of locals.
InitStore(ss, docs, locals) ==
    /\ sessions = ss
    /\ remote \in docs
    /\ local \in locals
    /\ loaded = [s \in AllSessions |-> "unset"]
    /\ cfg = [s \in AllSessions |-> <<>>]
    /\ msgs = [s \in AllSessions |-> <<>>]
    /\ alias = [s \in AllSessions |-> FALSE]
    /\ spc = [s \in AllSessions |-> "idle"]
    /\ held = [s \in AllSessions |-> <<>>]
    /\ ret = [s \in AllSessions |-> "none"]
    /\ saved = [s \in AllSessions |-> <<>>]
    /\ seen = [s \in AllSessions |-> <<>>]
    /\ events = [s \in AllSessions |-> 0]
    /\ path = [s \in AllSessions |-> "none"]
    /\ load_log = [s \in AllSessions |-> <<>>]

\* The model selected from one of the listings ls.
InitSelected(ls) ==
    /\ listing \in ls
    /\ model = get_valid_model(listing)
    /\ sel_pc = "selected"

\* The provider with its one stable flash model listed.
PlainListing ==
    [raises |-> FALSE,
     models |-> << [name |-> << "models/", "gemini-", "1.5-", "flash" >>,
                    supported_generation_methods |->
                        << "generateContent", "countTokens" >>] >>]

\* No run of send_chaos.
InitNoChaos ==
    /\ argv = {}
    /\ ch_pc = "off"
    /\ ch_config = <<>>
    /\ roll = 0
    /\ branch = "none"
    /\ answer = <<>>
    /\ outbox = <<>>
    /\ printed = <<>>

InitAux == InitSelected({PlainListing}) /\ InitNoChaos

\* The dispatcher of either script, no dashboard session.
Init ==
    /\ InitGen({"orbit", "dashboard"}, 1..MaxKeys)
    /\ InitStore({}, {StoredDoc(1, FALSE, 0)}, {<<>>})
    /\ InitAux

Next ==
    \/ RotateKey
    \/ GenStart
    \/ generate_content_safe
    \/ ask_orbit

Spec == Init /\ [][Next]_vars

\* The retry loop is straight-line code: a started call keeps running.
FairSpec ==
    Spec /\ WF_vars(generate_content_safe) /\ WF_vars(ask_orbit)

\* Two dashboard sessions on one remote document, changing the difficulty
\* and the interests.
InitWriters ==
    /\ InitGen({"dashboard"}, {1})
    /\ InitStore({1, 2}, {StoredDoc(d, FALSE, 0) : d \in 1..MaxDiff},
                 {<<>>, << StoredDoc(1, FALSE, 0) >>})
    /\ InitAux

NextWriters ==
    \E s \in AllSessions :
        \/ Load(s)
        \/ ChangeDifficulty(s)
        \/ UpdateInterests(s)
        \/ update_file(s)

SpecWriters == InitWriters /\ [][NextWriters]_vars

\* The chat_history lengths of the document a session starts from.
HistoryLengths == {0, MAX_HISTORY - 1, MAX_HISTORY}

\* One dashboard session with every handler that writes the config.
InitSession ==
    /\ InitGen({"dashboard"}, {1})
    /\ InitStore({1}, {StoredDoc(1, FALSE, 0)}
                      \cup {StoredDoc(1, TRUE, h) : h \in HistoryLengths},
                 {<<>>, << StoredDoc(1, FALSE, 0) >>})
    /\ InitAux

NextSession ==
    \E s \in AllSessions :
        \/ Load(s)
        \/ ChangeDifficulty(s)
        \/ ChatTurn(s)
        \/ AddUnits(s)
        \/ DropUnit(s)
        \/ UpdateInterests(s)
        \/ update_file(s)

SpecSession == InitSession /\ [][NextSession]_vars

\* The start of either script up to the selection of the model, for every
\* listing of up to MaxModels models.
InitModel ==
    /\ InitGen({"orbit", "dashboard"}, {1})
    /\ InitStore({}, {StoredDoc(1, FALSE, 0)}, {<<>>})
    /\ listing \in Listings
    /\ model = <<>>
    /\ sel_pc = "import"
    /\ InitNoChaos

NextModel == SelectModel

SpecModel == InitModel /\ [][NextModel]_vars

\* A config.json with nothing in interests and current_units.
BareDoc ==
    [StoredDoc(1, FALSE, 0) EXCEPT !.interests = <<>>, !.current_units = <<>>]

\* One run of orbit.py: the module start, then send_chaos().
InitChaos ==
    /\ InitGen({"orbit"}, {1})
    /\ InitStore({}, {StoredDoc(1, FALSE, 0), BareDoc},
                 {<<>>, << StoredDoc(1, FALSE, 0) >>})
    /\ InitSelected({PlainListing})
    /\ argv \in Flags
    /\ ch_pc = "start"
    /\ ch_config = <<>>
    /\ roll = 0
    /\ branch = "none"
    /\ answer = <<>>
    /\ outbox = <<>>
    /\ printed = <<>>

NextChaos ==
    \/ send_chaos
    \/ generate_content_safe
    \/ send_chaos_fact
    \/ send_chaos_quiz

SpecChaos == InitChaos /\ [][NextChaos]_vars

(* ------------------------------- claims -------------------------------- *)

\* The error classes of the dispatcher's contract: auth (marker "403" or
\* "leaked") and quota (marker "429").
IsAuth(out) == out # Success /\ (Has("403", out) \/ Has("leaked", out))

IsQuota(out) == out # Success /\ Has("429", out)

IsAuthOrQuota(out) == IsAuth(out) \/ IsQuota(out)

Outs(t) == [i \in 1..Len(t) |-> t[i].out]

Keys(t) == [i \in 1..Len(t) |-> t[i].key]

IsPrefix(a, b) == Len(a) <= Len(b) /\ \A i \in 1..Len(a) : a[i] = b[i]

AllAuthOrQuota(t) == \A i \in 1..Len(t) : IsAuthOrQuota(t[i].out)

QuotaQuotaSuccess == << {"429"}, {"429"}, Success >>

\* The case of C3: two credentials, the call started at index 0, and the
\* attempts so far went as [quota, quota, success] prescribes.
C3_Case ==
    /\ nkeys = 2
    /\ gen_pc # "idle"
    /\ Len(trace) >= 1
    /\ trace[1].key = 0
    /\ IsPrefix(Outs(trace), QuotaQuotaSuccess)

\* C3 as stated: with outcomes [quota, quota, success] on two credentials
\* from index 0 the call succeeds on the third attempt and ends with
\* current_index rotated exactly once, at index 1.
C3_RotatedOnce ==
    (C3_Case /\ Len(trace) = 3) =>
        /\ gen_pc = "done"
        /\ result = "text"
        /\ key_index = 1

\* C3 amended: with outcomes [quota, quota, success] on two credentials from
\* index 0 the call goes on after each quota error, succeeds on the third
\* attempt, and has rotated once per quota error: the calls used the keys
\* 0, 1, 0 and current_index ends back at 0.
C3_RotatedTwice ==
    C3_Case =>
        IF Len(trace) < 3
        THEN gen_pc = "running"
        ELSE /\ gen_pc = "done"
             /\ result = "text"
             /\ Keys(trace) = <<0, 1, 0>>
             /\ key_index = 0

C3_Witness ==
    /\ C3_Case
    /\ Len(trace) = 3
    /\ result = "text"

\* C4: a generate call whose attempts all fail with auth or quota errors
\* makes at most len(credentials) + 1 model calls, and returns a failure.
C4_AtMostNPlusOneCalls ==
    (Len(trace) >= 1 /\ AllAuthOrQuota(trace)) =>
        /\ Len(trace) <= nkeys + 1
        /\ gen_pc = "done" => result = "None"

\* C5: when a generate call returns failure after attempts that all failed
\* with auth or quota errors, every credential of the pool was used for a
\* model call.
C5_EveryKeyTried ==
    (gen_pc = "done" /\ result = "None" /\ Len(trace) >= 1
        /\ AllAuthOrQuota(trace)) =>
        {trace[i].key : i \in 1..Len(trace)} = 0..(nkeys - 1)

\* C6: a generate call never makes more than max_retries model calls and,
\* once started, eventually returns, whatever the outcomes of its attempts.
C6_Terminates ==
    /\ [](Len(trace) <= max_retries)
    /\ (gen_pc = "running") ~> (gen_pc = "done")

C6_Witness ==
    /\ gen_pc = "done"
    /\ result = "None"
    /\ Len(trace) = max_retries
    /\ \E i \in 1..Len(trace) : Has("404", trace[i].out)
    /\ \E i \in 1..Len(trace) : Has("429", trace[i].out)

\* C7: current_index is always a valid index of the (non-empty) pool.
C7_IndexInRange ==
    nkeys >= 1 => (0 <= key_index /\ key_index < nkeys)

\* A rotation from the last credential wrapped around to the first.
C7_Witness ==
    /\ nkeys >= 2
    /\ Len(rot_hist) >= 1
    /\ rot_hist[Len(rot_hist)] = nkeys - 1
    /\ key_index = 0

\* C8: on a pool of n >= 2 credentials every rotate_key() returns True, and
\* after n rotate_key() calls in a row current_index is what it was before
\* the first of them.
C8_FullCycle ==
    nkeys >= 2 =>
        /\ rot_ret # "False"
        /\ Len(rot_hist) = nkeys => key_index = rot_hist[1]

\* n rotations in a row that started from an index other than 0.
C8_Witness ==
    /\ nkeys >= 3
    /\ Len(rot_hist) = nkeys
    /\ rot_hist[1] # 0
    /\ rot_ret = "True"

\* C9: on a pool of exactly one credential rotate_key() returns False,
\* leaves current_index alone and does not re-select the model, both when
\* called on its own and when a generate call's handler calls it.
C9_SingleKeyNoOp ==
    nkeys = 1 =>
        /\ key_index = 0
        /\ rot_ret # "True"
        /\ (gen_pc = "idle" /\ rot_ret # "none") => scans = 0
        /\ \A i \in 1..Len(trace) :
              trace[i].rot # "none" =>
                  (trace[i].rot = "False" /\ trace[i].rescan = 0)

\* rotate_key() was called on a one-credential pool, by a handler and on its own.
C9_Witness ==
    /\ nkeys = 1
    /\ gen_pc = "idle"
    /\ rot_ret = "False"
    /\ \E i \in 1..Len(trace) : trace[i].rot = "False"

\* C10: an attempt that fails with an auth or quota error (and is not the
\* last one max_retries allows) is followed by a model call with the next
\* credential when the pool has more than one, and ends the generate call
\* at once when the pool has exactly one.
C10_RetryNextKeyOrAbort ==
    \A i \in 1..Len(trace) :
        (IsAuthOrQuota(trace[i].out) /\ i < max_retries) =>
            IF nkeys > 1
            THEN IF i < Len(trace)
                 THEN trace[i + 1].key = (trace[i].key + 1) % nkeys
                 ELSE gen_pc = "running"
            ELSE i = Len(trace) /\ gen_pc = "done"

\* C1: when the remote document is no longer what it was when the session
\* loaded (or last committed) and the session saves a document that differs
\* from it, save_config returns False and the remote document keeps the
\* other writer's content.
C1_StaleSaveRejected ==
    [][\A s \in sessions :
          (/\ spc[s] = "update" /\ spc'[s] = "idle"
           /\ seen[s] # << remote >>
           /\ cfg[s][1] # remote)
              => (ret'[s] = "False" /\ remote' = remote)]_vars

\* C2: every document handed to save_config has at most MAX_HISTORY
\* chat_history entries.
C2_SavedHistoryBounded ==
    \A s \in AllSessions :
        saved[s] # <<>> => Len(saved[s][1].chat_history) <= MAX_HISTORY

(* ---------------- claims on the other error classes -------------------- *)

\* The not-found class (marker "404") and the transient class (markers
\* "500", "503") of the dispatcher's contract; an error message in none of
\* the four classes is fatal.
IsNotFound(out) == out # Success /\ Has("404", out)

IsTransient(out) == out # Success /\ (Has("500", out) \/ Has("503", out))

IsFatal(out) ==
    /\ out # Success
    /\ ~IsAuthOrQuota(out)
    /\ ~IsNotFound(out)
    /\ ~IsTransient(out)

\* The model call i of the trace was followed by another attempt of the same
\* generate call on the same credential.
RetriedOnSameKey(i) ==
    IF i < Len(trace) THEN trace[i + 1].key = trace[i].key
    ELSE gen_pc = "running" /\ key_index = trace[i].key

\* C11: a not-found error with an attempt left makes the dispatcher re-select
\* the model and retry on the same credential, the key index unchanged; only
\* the first not-found error of a generate call is treated so, a second one
\* ends the call without a re-selection.
C11_NotFoundReselectsOnce ==
    gen_pc # "idle" =>
        \A i \in 1..Len(trace) :
            IsNotFound(trace[i].out) /\ i < max_retries =>
                IF \A j \in 1..(i - 1) : ~IsNotFound(trace[j].out)
                THEN /\ trace[i].rescan = 1
                     /\ trace[i].rot = "none"
                     /\ RetriedOnSameKey(i)
                ELSE /\ trace[i].rescan = 0
                     /\ i = Len(trace)
                     /\ gen_pc = "done"

\* C12: a transient error (500, 503) with an attempt left is retried on the
\* same credential and the same model: the call does not end on it.
C12_TransientRetried ==
    gen_pc # "idle" =>
        \A i \in 1..Len(trace) :
            IsTransient(trace[i].out) /\ i < max_retries =>
                /\ trace[i].rescan = 0
                /\ trace[i].rot = "none"
                /\ RetriedOnSameKey(i)

\* C13: a fatal error ends the generate call at once with the failure result:
\* it is the last model call of the call, the key index is not rotated and
\* the model is not re-selected.
C13_FatalEndsCall ==
    gen_pc # "idle" =>
        \A i \in 1..Len(trace) :
            IsFatal(trace[i].out) =>
                /\ i = Len(trace)
                /\ gen_pc = "done"
                /\ result = "None"
                /\ trace[i].rot = "none"
                /\ trace[i].rescan = 0
                /\ key_index = trace[i].key

\* A call that rotated to another credential and then ended on a fatal error.
C13_Witness ==
    /\ gen_pc = "done"
    /\ Len(trace) = 2
    /\ IsQuota(trace[1].out)
    /\ trace[1].rot = "True"
    /\ IsFatal(trace[2].out)
    /\ key_index = 1

\* C14: what a generate call returns after exhausting the pool is never what
\* a generate call returns after a fatal error.
C14_ExhaustedNotFatal ==
    \A x \in returned : \A y \in returned :
        x[1] = "exhausted" /\ y[1] = "fatal" => x[2] # y[2]

\* C15: the model is selected once at process start and afterwards exactly
\* once per not-found error, before the next attempt; nothing else, a key
\* rotation included, re-selects it.
C15_ReselectOnlyOnNotFound ==
    /\ \A i \in 1..Len(trace) :
           trace[i].rescan = IF IsNotFound(trace[i].out) THEN 1 ELSE 0
    /\ gen_pc = "idle" => scans = IF rot_ret = "none" THEN 1 ELSE 0

(* ------------------------ claims on selection -------------------------- *)

\* The descriptors of discovery: the listed models that support content
\* generation, in the provider's order.
Descriptors ==
    SelectSeq(listing.models,
              LAMBDA d : \E i \in 1..Len(d.supported_generation_methods) :
                             d.supported_generation_methods[i] = "generateContent")

Tier1(d) ==
    /\ in_str(<< "gemini-", "1.5-", "flash" >>, d.name)
    /\ ~in_str(<< "latest" >>, d.name)
    /\ ~in_str(<< "exp" >>, d.name)

Tier2(d) ==
    /\ in_str(<< "flash" >>, d.name)
    /\ ~in_str(<< "gemini-", "2" >>, d.name)
    /\ ~in_str(<< "exp" >>, d.name)

\* The positions of the descriptors of tier 1, and of tier 2.
Tier1At == {i \in 1..Len(Descriptors) : Tier1(Descriptors[i])}

Tier2At == {i \in 1..Len(Descriptors) : Tier2(Descriptors[i])}

Least(S) == CHOOSE i \in S : \A j \in S : i <= j

\* The descriptor the priority policy picks, <<>> for the default.
Best ==
    IF listing.raises \/ Descriptors = <<>> THEN <<>>
    ELSE IF Tier1At # {} THEN << Descriptors[Least(Tier1At)] >>
    ELSE IF Tier2At # {} THEN << Descriptors[Least(Tier2At)] >>
    ELSE << Descriptors[1] >>

\* The model identifier of a descriptor: its name without the "models/" prefix.
Identifier(d) == SubSeq(d.name, 2, Len(d.name))

\* C16: for every descriptor list the selected model is the first tier-1
\* descriptor if there is one, else the first tier-2 descriptor, else the
\* first descriptor, and gemini-1.5-flash when the list is empty or the
\* discovery raises; a tier-1 descriptor wins over a tier-2 one wherever
\* the two stand in the list.
C16_PriorityScan ==
    sel_pc = "selected" =>
        model = IF Best = <<>> THEN << "gemini-", "1.5-", "flash" >>
                ELSE Identifier(Best[1])

\* A tier-2 descriptor listed before a tier-1 descriptor, and the tier-1
\* one selected.
C16_Witness ==
    /\ sel_pc = "selected"
    /\ Tier1At # {}
    /\ \E j \in Tier2At \ Tier1At : j < Least(Tier1At)
    /\ model = Identifier(Descriptors[Least(Tier1At)])
    /\ model # << "gemini-", "1.5-", "flash" >>
    /\ Len(Descriptors) < Len(listing.models)

(* --------------------- claims on the config store ---------------------- *)

\* C17: load_config never raises; it returns the remote document when the
\* remote read succeeds, on any remote failure the local document when the
\* local file is readable, and None only when both sources fail.
C17_LoadFallsBack ==
    \A s \in sessions :
        load_log[s] # <<>> =>
            LET l == load_log[s][1]
            IN  /\ ~l.raised
                /\ l.value = IF l.remote_ok THEN << l.rem >>
                             ELSE IF l.local_read = "ok" THEN l.loc
                             ELSE <<>>

\* C18: a save_config that finds the remote unavailable (no GitHub session,
\* or the remote read or write failing for another reason than a version
\* conflict) overwrites the local file with the document and returns True.
C18_SaveFallsBackToLocal ==
    \A s \in sessions :
        path[s] \in {"no session", "get_contents raises", "update_file raises"} =>
            /\ ret[s] = "True"
            /\ local = saved[s]

(* ---------------------- claims on the chaos roll ----------------------- *)

Kinds(box) == {box[i].kind : i \in 1..Len(box)}

Bodies(box) == {box[i].body : i \in 1..Len(box)}

\* What the run has sent so far belongs to the one action named.
OnlyAction(name) ==
    CASE name = "silence" -> outbox = <<>>
      [] name = "fact" -> Len(outbox) <= 1 /\ Bodies(outbox) \subseteq {"Magic Fact"}
      [] name = "quiz" ->
             \A i \in 1..Len(outbox) :
                 IF i = 1 THEN outbox[i].body = "Incoming Rapid Fire"
                 ELSE outbox[i].kind = "poll"
      [] name = "god" ->
             Len(outbox) <= 1 /\ Bodies(outbox) \subseteq {"GOD MODE ACTIVATED"}

\* C19: every roll is one of 1..100 and takes exactly one action: Silence
\* for 1..50, Fact for 51..85, Quiz for 86..98, the announcement for 99 and
\* 100 (so 50, 51, 85, 86, 98, 99 go to Silence, Fact, Fact, Quiz, Quiz and
\* the announcement); --quiz forces a roll of the Quiz band and --fact alone
\* one of the Fact band.
C19_BandsRouteRoll ==
    roll # 0 =>
        /\ roll \in 1..100
        /\ branch = ( CASE roll \in 1..50 -> "silence"
                        [] roll \in 51..85 -> "fact"
                        [] roll \in 86..98 -> "quiz"
                        [] roll \in 99..100 -> "god" )
        /\ OnlyAction(branch)
        /\ "--quiz" \in argv => branch = "quiz"
        /\ argv = {"--fact"} => branch = "fact"

\* An unforced roll of 86, the lowest of the Quiz band, that ended with a
\* poll in the chat.
C19_Witness ==
    /\ argv = {}
    /\ roll = 86
    /\ branch = "quiz"
    /\ ch_pc = "done"
    /\ "poll" \in Kinds(outbox)

\* The answer of the model cannot be parsed into well-formed questions: it
\* is not one JSON value, or not a list of objects (or one object), or one of
\* its objects lacks a key of a question.
NotWellFormed(text) ==
    LET body == SelectSeq(text, LAMBDA piece : piece.kind = "json")
    IN  \/ Len(body) # 1
        \/ \E i \in 1..Len(text) : text[i].kind = "prose"
        \/ body[1].value.type \notin {"list", "dict"}
        \/ \E i \in 1..Len(body[1].value.items) :
               DOMAIN body[1].value.items[i]
                   # {"question", "options", "correct_id", "explanation"}

\* C20: a quiz answer that cannot be parsed into well-formed questions makes
\* the run skip the whole quiz: no poll is sent, the failure is printed, and
\* the stored config is the one that was loaded.
C20_QuizSkippedOnParseFailure ==
    (ch_pc = "done" /\ branch = "quiz" /\ answer # <<>> /\ NotWellFormed(answer[1])) =>
        /\ "poll" \notin Kinds(outbox)
        /\ printed # <<>>
        /\ ch_config \in {<< remote >>, local}

\* C21: a roll of the Fact band with no interests, or of the Quiz band with
\* no current units, ends the run with a printed configuration error: the
\* run is not ended by an exception, no generate call is made and nothing
\* is sent.
C21_EmptyListReported ==
    (\/ branch = "fact" /\ ch_config[1].interests = <<>>
     \/ branch = "quiz" /\ ch_config[1].current_units = <<>>) =>
        /\ ch_pc = "done"
        /\ printed # <<>>
        /\ gen_pc = "idle"
        /\ outbox = <<>>

(* ----------------------- claims on the chat trim ----------------------- *)

\* h is the last MAX_HISTORY entries of m, in m's order.
IsWindowOf(h, m) ==
    /\ Len(h) = MAX_HISTORY
    /\ \A i \in 1..MAX_HISTORY : h[i] = m[Len(m) - MAX_HISTORY + i]

\* C22: an answered chat turn that leaves more than MAX_HISTORY messages in
\* the session hands save_config a chat_history of exactly MAX_HISTORY
\* entries, the last MAX_HISTORY messages in their order; the local write
\* stores that document, and so does the commit of update_file.
C22_ChatTurnPersistsWindow ==
    [][\A s \in sessions :
          /\ (Len(msgs'[s]) = Len(msgs[s]) + 2 /\ Len(msgs'[s]) > MAX_HISTORY) =>
                 /\ saved'[s] # <<>>
                 /\ IsWindowOf(saved'[s][1].chat_history, msgs'[s])
                 /\ path'[s] = "no session" => local' = saved'[s]
          /\ (spc[s] = "update" /\ path'[s] = "committed") =>
                 remote' = saved[s][1]]_vars

\* A session with more than MAX_HISTORY messages whose answered chat turn
\* was committed: the remote chat_history is the last MAX_HISTORY of them.
C22_Witness ==
    \E s \in sessions :
        /\ Len(msgs[s]) > MAX_HISTORY + 2
        /\ path[s] = "committed"
        /\ saved[s] = << remote >>
        /\ IsWindowOf(remote.chat_history, msgs[s])
        /\ remote.chat_history[1] = msgs[s][Len(msgs[s]) - MAX_HISTORY + 1]

(* ------------------ claims on the two dispatchers ---------------------- *)

\* The finished generate call as the state has it.
ThisRun ==
    [calls |-> Len(trace), index |-> key_index, rescans |-> scans,
     result |-> result]

\* C23: on the pool size, the starting index and the outcomes of a finished
\* generate call, generate_content_safe and ask_orbit make the same number
\* of model calls, end on the same key index, re-select the model the same
\* number of times and return the same result.
C23_DispatchersAgree ==
    (gen_pc = "done" /\ trace # <<>>) =>
        /\ run("orbit", Outs(trace), trace[1].key, nkeys, 0)
               = run("dashboard", Outs(trace), trace[1].key, nkeys, 0)
        /\ run(impl, Outs(trace), trace[1].key, nkeys, 0) = ThisRun

====
